---- MODULE Spec2Model ----
(***************************************************************************)
(* junit2md: JUnit XML report -> Markdown.                                 *)
(*                                                                         *)
(* The module models five parts of the program:                            *)
(*   Spec       main(): single-input and multi-input control flow          *)
(*   SpecSingle suite_to_md_single(): the single-suite report, step by step*)
(*   SpecMult   suites_to_md_mult(): the aggregated report, step by step   *)
(*   SpecName   omit_java_package(): the name simplifier                   *)
(*   SpecTable  create_md_table() / pad_cell_text(): the table layout      *)
(*                                                                         *)
(* Text is a sequence of Unicode scalar values.  One scalar value is a     *)
(* TLA+ string: an ASCII character stands for itself ("a", ".", " "),      *)
(* a non-ASCII one is written by its code point ("U+2713" is the check     *)
(* mark).  A Rust Option is a sequence of length 0 (None) or 1 (Some).     *)
(***************************************************************************)
EXTENDS Integers, Sequences, FiniteSets, TLC

VARIABLES
    pc,                       \* position of the running function
    \* ---- main()
    junit_files,              \* cli_args.values_of("input-files"): one entry per file
    file_idx,                 \* position of the `for junit_file in junit_files` loop
    mult,                     \* main.rs:50  Result<JunitReport, XmlError>
    singular,                 \* main.rs:61 / main.rs:78  Result<TestSuite, XmlError>
    testsuites,               \* main.rs:74  Vec<TestSuite>
    parsed,                   \* history: the parse result of every file read so far
    stdout,                   \* what println! wrote
    stderr,                   \* what eprintln! / a panic wrote
    IS_VERBOSE,               \* main.rs:19
    overflow_checks,          \* build profile: are integer overflows checked (panic) or wrapped
    \* ---- suite_to_md_single()
    suite,                    \* the TestSuite being rendered
    md,                       \* the Markdown built so far
    \* ---- omit_java_package()
    name,                     \* the argument
    simplified,               \* Option: omit_java_package(name)
    twice,                    \* Option: omit_java_package(omit_java_package(name))
    \* ---- create_md_table()
    rows,                     \* the table: rows of cell texts
    align_left_first_column,
    column_widths,
    table_md                  \* lines pushed to md by create_md_table

vars == << pc, junit_files, file_idx, mult, singular, testsuites, parsed, stdout,
           stderr, IS_VERBOSE, overflow_checks, suite, md, name, simplified, twice,
           rows, align_left_first_column, column_widths, table_md >>

mainVars == << junit_files, file_idx, mult, singular, testsuites, parsed, stdout, stderr >>
buildVars == << IS_VERBOSE, overflow_checks >>
singleVars == << suite, md >>
nameVars == << name, simplified, twice >>
tableVars == << rows, align_left_first_column, column_widths, table_md >>

(***************************************************************************)
(* Bounds of the model.                                                    *)
(***************************************************************************)
MaxNameLen == 4      \* longest name given to omit_java_package
MaxCases == 4        \* most test cases in a suite
MaxTests == 2        \* largest declared `tests` attribute
MaxCount == 1        \* largest declared failures / errors / disabled / skipped
MaxFiles == 3        \* most input files on the command line
MaxSuites == 2       \* most <testsuite> children of an aggregated document
MaxTotalCases == 3   \* most test cases of all suites of an aggregated report together
MaxRows == 2         \* most rows of a table given to create_md_table
WordBits == 16       \* width the model gives u64 / usize (the code: 64)

(***************************************************************************)
(* Option, text                                                            *)
(***************************************************************************)
None == << >>
Some(x) == << x >>
is_some(o) == Len(o) = 1
is_none(o) == Len(o) = 0
unwrap(o) == o[1]
unwrap_or(o, d) == IF is_some(o) THEN o[1] ELSE d

RECURSIVE SeqsUpTo(_, _)
\* every sequence over S of length 0..n
SeqsUpTo(S, n) ==
    IF n = 0 THEN { << >> }
    ELSE LET shorter == SeqsUpTo(S, n - 1)
         IN  shorter \cup { Append(s, x) : s \in { t \in shorter : Len(t) = n - 1 }, x \in S }

\* UTF-8 length of one scalar value (char::len_utf8)
len_utf8(c) ==
    CASE c \in { "U+2713", "U+2717", "U+203C", "U+2702" } -> 3
      [] c \in { "U+00E9" } -> 2
      [] OTHER -> 1

RECURSIVE str_len(_)
\* str::len: the length in bytes
str_len(s) == IF s = << >> THEN 0 ELSE len_utf8(Head(s)) + str_len(Tail(s))

\* str.chars().count()
chars_count(s) == Len(s)

\* byte offset at which the i-th scalar value of s starts (i in 1..Len(s)+1)
byte_offset(s, i) == str_len(SubSeq(s, 1, i - 1))

\* str::contains(char)
contains(s, c) == \E i \in 1..Len(s) : s[i] = c

\* str::rfind(char): Some(byte index of the last occurrence)
rfind(s, c) ==
    IF contains(s, c)
    THEN LET i == CHOOSE k \in 1..Len(s) :
                     s[k] = c /\ \A j \in (k + 1)..Len(s) : s[j] # c
         IN  Some(byte_offset(s, i))
    ELSE None

\* str::is_char_boundary
is_char_boundary(s, b) == \E i \in 1..(Len(s) + 1) : byte_offset(s, i) = b

\* str::get(from..to): None unless both ends are char boundaries and from <= to
str_get(s, from, to) ==
    IF from <= to /\ is_char_boundary(s, from) /\ is_char_boundary(s, to)
    THEN LET i == CHOOSE k \in 1..(Len(s) + 1) : byte_offset(s, k) = from
             j == CHOOSE k \in 1..(Len(s) + 1) : byte_offset(s, k) = to
         IN  Some(SubSeq(s, i, j - 1))
    ELSE None

\* the variables of a part of the program that a specification does not run
IdleMain ==
    /\ junit_files = << >> /\ file_idx = 0 /\ mult = None /\ singular = None
    /\ testsuites = << >> /\ parsed = << >> /\ stdout = << >> /\ stderr = << >>
IdleBuild == IS_VERBOSE = FALSE /\ overflow_checks = FALSE
IdleSingle == suite = None /\ md = << >>
IdleName == name = << >> /\ simplified = None /\ twice = None
IdleTable ==
    /\ rows = << >> /\ align_left_first_column = FALSE
    /\ column_widths = << >> /\ table_md = << >>

(***************************************************************************)
(* lang_specific/mod.rs                                                    *)
(***************************************************************************)
\* mutation: the package is cut at the first '.', not the last
omit_java_package_first_dot(n) ==
    IF ~contains(n, ".") \/ contains(n, " ")
    THEN n
    ELSE LET i == CHOOSE k \in 1..Len(n) : n[k] = "." /\ \A j \in 1..(k - 1) : n[j] # "."
         IN  IF i = Len(n) THEN n ELSE SubSeq(n, i + 1, Len(n))

\* mutation: the whitespace test is dropped
omit_java_package_no_space_test(n) ==
    IF ~contains(n, ".")
    THEN n
    ELSE LET last_dot_idx == unwrap(rfind(n, ".")) + 1
         IN  IF str_len(n) = last_dot_idx
             THEN n
             ELSE unwrap_or(str_get(n, last_dot_idx, str_len(n)), n)

omit_java_package(n) ==
    IF ~contains(n, ".") \/ contains(n, " ")
    THEN n                                              \* not a java class name
    ELSE LET last_dot_idx == unwrap(rfind(n, ".")) + 1
         IN  IF str_len(n) = last_dot_idx
             THEN n                                     \* string was ending with dot
             ELSE unwrap_or(str_get(n, last_dot_idx, str_len(n)), n)

(***************************************************************************)
(* model/mod.rs: the report model.                                         *)
(***************************************************************************)
TestNegativeResult(error_type, message, body) ==
    [ error_type |-> error_type, message |-> message, body |-> body ]

\* (time, system-out and system-err take one value each in the inputs below)
TestCase(n, classname, skipped, errors, failures) ==
    [ name |-> n, time |-> None, classname |-> classname,
      system_out |-> Some(<< "o", "\n", "k" >>), system_err |-> None,
      skipped |-> skipped, errors |-> errors, failures |-> failures ]

TestSuite(n, tests, failures, disabled, skipped, errors, testcases) ==
    [ name |-> n, tests |-> tests, failures |-> failures, disabled |-> disabled,
      skipped |-> skipped, errors |-> errors,
      time |-> Some(<< "1", ".", "5" >>), timestamp |-> Some(<< "T" >>), hostname |-> None,
      properties |-> None, testcases |-> testcases ]

\* test.skipped.is_some() || !test.failures.is_empty() || !test.errors.is_empty()
is_negative(test) ==
    is_some(test.skipped) \/ test.failures # << >> \/ test.errors # << >>

(***************************************************************************)
(* The Markdown text is modelled as the sequence of the pieces pushed to   *)
(* it.  A displayed value is [lit |-> s] (a string literal of the code),   *)
(* [chars |-> t] (text taken from the input), [num |-> n] (an integer) or  *)
(* [fmt |-> f, arg |-> n] (format!(f, n)).                                 *)
(***************************************************************************)
Lit(s) == [ lit |-> s ]
Chars(t) == [ chars |-> t ]
Num(n) == [ num |-> n ]
Format(f, n) == [ fmt |-> f, arg |-> n ]

\* title.chars().count() of a displayed header title
title_chars_count(title) ==
    IF "chars" \in DOMAIN title THEN chars_count(title.chars)
    ELSE CASE title.lit = "Aggregated test report" -> 22
           [] title.lit = "Breakdown by testcases" -> 22
           [] title.lit = "Overall status" -> 14
           [] title.lit = "Failures" -> 8

(***************************************************************************)
(* md/mod.rs                                                               *)
(***************************************************************************)
create_header(m, underline, title) ==
    Append(m, [ kind |-> "header", title |-> title, underline |-> underline,
                underline_len |-> title_chars_count(title) ])

create_h1(m, title) == create_header(m, "=", title)

create_h2(m, title) == create_header(m, "-", title)

create_h3(m, title) == Append(m, [ kind |-> "h3", title |-> title ])

RECURSIVE replace_newline(_, _)
\* str::replace('\n', "\n" + to_prepend)
replace_newline(s, to_prepend) ==
    IF s = << >> THEN << >>
    ELSE IF Head(s) = "\n"
         THEN << "\n" >> \o to_prepend \o replace_newline(Tail(s), to_prepend)
         ELSE << Head(s) >> \o replace_newline(Tail(s), to_prepend)

tabulate(input, to_prepend) == replace_newline(to_prepend \o input, to_prepend)

create_code_detail(m, summary, code) ==
    Append(m, [ kind |-> "details", summary |-> summary,
                code |-> tabulate(code, << " ", " ", " ", " " >>) ])

\* the table is emitted only with a header row and at least one value row
create_md_table(m, table, align_left) ==
    IF Len(table) < 2
    THEN m
    ELSE Append(m, [ kind |-> "table", rows |-> table, align_left_first_column |-> align_left ])

(***************************************************************************)
(* u64 arithmetic.  An overflow panics in a build with overflow checks     *)
(* and wraps in a build without; a division by zero panics in both.        *)
(***************************************************************************)
Modulus == 2 ^ WordBits
wrap(x) == x % Modulus
overflows(x) == x < 0 \/ x >= Modulus

\* a * 100 / b as the code's u64 expression evaluates it
percent(a, b) == wrap(a * 100) \div b

\* what a rendering function leaves: the text, or the panic that ended it
Rendered(m) == [ panic |-> FALSE, md |-> m, message |-> "" ]
Panicked(m, message) == [ panic |-> TRUE, md |-> m, message |-> message ]

(***************************************************************************)
(* main.rs: the report renderer                                            *)
(***************************************************************************)
add_suite_properties(m, s, verbose) ==
    IF ~verbose
    THEN m
    ELSE LET m1 == IF is_some(s.timestamp) /\ is_some(s.hostname) /\ is_some(s.time)
                   THEN Append(m, [ kind |-> "started", hostname |-> unwrap(s.hostname),
                                    timestamp |-> unwrap(s.timestamp), time |-> unwrap(s.time) ])
                   ELSE m
         IN  IF is_none(s.properties)
             THEN m1
             ELSE Append(m1, [ kind |-> "properties", properties |-> unwrap(s.properties) ])

\* the four counts of the "Overall status" table, in the code's order of evaluation
totals_skipped(s) == unwrap_or(s.skipped, 0)
totals_disabled(s) == unwrap_or(s.disabled, 0)
totals_failed(s) == wrap(unwrap_or(s.failures, 0) + unwrap_or(s.errors, 0))
totals_success(s) ==
    wrap(wrap(wrap(s.tests - totals_failed(s)) - totals_disabled(s)) - totals_skipped(s))

\* does the + or some - that computes failed_tests and success_tests leave the u64 range
counts_overflow(s) ==
    \/ overflows(unwrap_or(s.failures, 0) + unwrap_or(s.errors, 0))
    \/ overflows(s.tests - totals_failed(s))
    \/ overflows(wrap(s.tests - totals_failed(s)) - totals_disabled(s))
    \/ overflows(wrap(wrap(s.tests - totals_failed(s)) - totals_disabled(s)) - totals_skipped(s))

\* does some +, - or * of add_totals_singular leave the u64 range
totals_singular_overflows(s) ==
    \/ counts_overflow(s)
    \/ overflows(totals_skipped(s) * 100)
    \/ overflows(totals_disabled(s) * 100)
    \/ overflows(totals_failed(s) * 100)
    \/ overflows(totals_success(s) * 100)

add_totals_singular(m, s, checks) ==
    LET m1 == create_h2(m, Lit("Overall status"))
    IN  IF checks /\ overflows(totals_skipped(s) * 100)
        THEN Panicked(m1, "attempt to multiply with overflow")
        ELSE IF s.tests = 0
        THEN Panicked(m1, "attempt to divide by zero")
        ELSE IF checks /\ totals_singular_overflows(s)
        THEN Panicked(m1, "arithmetic overflow")
        ELSE Rendered(create_md_table(m1,
                 << << Lit("Type"), Lit("Number of tests"), Lit("% of total") >>,
                    << Lit("Skipped"), Num(totals_skipped(s)),
                       Num(percent(totals_skipped(s), s.tests)) >>,
                    << Lit("Disabled"), Num(totals_disabled(s)),
                       Num(percent(totals_disabled(s), s.tests)) >>,
                    << Lit("Failed"), Num(totals_failed(s)),
                       Num(percent(totals_failed(s), s.tests)) >>,
                    << Lit("**Success**"), Num(totals_success(s)),
                       Num(percent(totals_success(s), s.tests)) >> >>,
                 FALSE))

\* the row add_testcases_summary pushes for one test case
summary_row(test, fail_index) ==
    LET n == omit_java_package(test.name)
        test_time == unwrap_or(test.time, << >>)
        link == Format("[[{0}]](#c-{0})", fail_index)
    IN  IF test.errors # << >>
        THEN << Chars(n), Lit("U+203C"), Chars(test_time), link >>
        ELSE IF test.failures # << >>
        THEN << Chars(n), Lit("U+2717"), Chars(test_time), link >>
        ELSE IF is_some(test.skipped)
        THEN << Chars(n), Lit("U+2702"), Chars(test_time), link >>
        ELSE << Chars(n), Lit("U+2713"), Chars(test_time), Lit("") >>

\* mutation: a skipped test case does not advance fail_index
summary_counts_without_skipped(test) ==
    test.errors # << >> \/ test.failures # << >>

\* does the loop of add_testcases_summary advance fail_index after this test case
summary_counts(test) ==
    test.errors # << >> \/ test.failures # << >> \/ is_some(test.skipped)

RECURSIVE summary_rows(_, _, _)
\* the loop of add_testcases_summary from test case i on
summary_rows(tests, i, fail_index) ==
    IF i > Len(tests) THEN << >>
    ELSE << summary_row(tests[i], fail_index) >>
         \o summary_rows(tests, i + 1,
                         IF summary_counts(tests[i]) THEN fail_index + 1 ELSE fail_index)

add_testcases_summary(m, s) ==
    create_md_table(
        create_h2(m, Lit("Breakdown by testcases")),
        << << Lit("Testcase name"), Lit("Status"), Lit("Time"), Lit("Cause") >> >>
            \o summary_rows(s.testcases, 1, 0),
        TRUE)

\* the header report_negative_result gives an entry
negative_result_title(test) == test.name

report_negative_result(m, fail_index, test, result, verbose) ==
    LET m1 == Append(m, [ kind |-> "anchor", text |-> Format("<a id=\"c-{}\"/>", fail_index) ])
        m2 == create_h3(m1, Chars(negative_result_title(test)))
        m3 == IF is_some(test.classname)
              THEN Append(m2, [ kind |-> "classname",
                                text |-> Chars(omit_java_package(unwrap(test.classname))) ])
              ELSE m2
        m4 == Append(m3, [ kind |-> "fail_reason",
                           text |-> IF is_some(result.message)
                                    THEN Chars(unwrap(result.message))
                                    ELSE Lit("Not specified") ])
        m5 == IF is_some(result.body)
              THEN create_code_detail(m4, "Click to show details", unwrap(result.body))
              ELSE m4
        m6 == IF is_some(test.system_out)
              THEN create_code_detail(m5, "Click to show test stdout", unwrap(test.system_out))
              ELSE m5
        m7 == IF is_some(test.system_err)
              THEN create_code_detail(m6, "Click to show test stderr", unwrap(test.system_err))
              ELSE m6
    IN  IF ~verbose THEN m5 ELSE m7

\* the negative result add_testcases_fail_details reports for a test case: None for a success
first_negative_result(test) ==
    IF test.errors # << >> THEN Some(test.errors[1])
    ELSE IF test.failures # << >> THEN Some(test.failures[1])
    ELSE test.skipped

RECURSIVE fail_details_from(_, _, _, _, _)
\* the loop of add_testcases_fail_details from test case i on
fail_details_from(m, tests, i, fail_index, verbose) ==
    IF i > Len(tests) THEN m
    ELSE LET result == first_negative_result(tests[i])
         IN  IF is_some(result)
             THEN fail_details_from(
                      report_negative_result(m, fail_index, tests[i], unwrap(result), verbose),
                      tests, i + 1, fail_index + 1, verbose)
             ELSE fail_details_from(m, tests, i + 1, fail_index, verbose)

add_testcases_fail_details(m, tests, verbose) ==
    IF ~(\E i \in 1..Len(tests) : is_negative(tests[i]))
    THEN m                                              \* no failures to report
    ELSE fail_details_from(create_h2(m, Lit("Failures")), tests, 1, 0, verbose)

suite_to_md_single(s, verbose, checks) ==
    LET m1 == create_h1(<< >>, Chars(omit_java_package(s.name)))
        m2 == add_suite_properties(m1, s, verbose)
        r3 == add_totals_singular(m2, s, checks)
    IN  IF r3.panic
        THEN r3
        ELSE Rendered(add_testcases_fail_details(add_testcases_summary(r3.md, s),
                                                 s.testcases, verbose))

\* the running totals of add_totals_multiple before the first suite
no_totals ==
    [ table |-> << >>, skipped |-> 0, disabled |-> 0, failed |-> 0, success |-> 0,
      overall |-> 0, overflow |-> FALSE ]

RECURSIVE totals_from(_, _, _)
\* the loop of add_totals_multiple from suite i on
totals_from(suites, i, acc) ==
    IF i > Len(suites) THEN acc
    ELSE LET s == suites[i]
             time == unwrap_or(s.time, << >>)
         IN  totals_from(suites, i + 1,
                 [ table |-> Append(acc.table,
                       << Chars(omit_java_package(s.name)), Chars(time),
                          Num(totals_success(s)), Num(totals_skipped(s)),
                          Num(totals_disabled(s)), Num(totals_failed(s)), Num(s.tests) >>),
                   skipped |-> wrap(acc.skipped + totals_skipped(s)),
                   disabled |-> wrap(acc.disabled + totals_disabled(s)),
                   failed |-> wrap(acc.failed + totals_failed(s)),
                   success |-> wrap(acc.success + totals_success(s)),
                   overall |-> wrap(acc.overall + s.tests),
                   overflow |-> \/ acc.overflow
                                \/ counts_overflow(s)
                                \/ overflows(acc.skipped + totals_skipped(s))
                                \/ overflows(acc.disabled + totals_disabled(s))
                                \/ overflows(acc.failed + totals_failed(s))
                                \/ overflows(acc.success + totals_success(s))
                                \/ overflows(acc.overall + s.tests) ])

add_totals_multiple(m, suites, checks) ==
    LET m1 == Append(m, [ kind |-> "newline" ])
        totals == totals_from(suites, 1, no_totals)
    IN  IF checks /\ totals.overflow
        THEN Panicked(m1, "arithmetic overflow")
        ELSE Rendered(create_md_table(m1,
                 << << Lit("Suite name"), Lit("Time taken, s"), Lit("Success"), Lit("Skipped"),
                       Lit("Disabled"), Lit("Failures"), Lit("Total") >> >>
                 \o totals.table
                 \o << << Lit("**Total**"), Lit("N/A"), Num(totals.success), Num(totals.skipped),
                          Num(totals.disabled), Num(totals.failed), Num(totals.overall) >> >>,
                 TRUE))

RECURSIVE flatten_testcases(_, _)
\* suites.into_iter().map(|suite| suite.testcases).flatten(), from suite i on
flatten_testcases(suites, i) ==
    IF i > Len(suites) THEN << >>
    ELSE suites[i].testcases \o flatten_testcases(suites, i + 1)

\* mutation: the filter forgets the skipped test cases
failed_tests_without_skipped(suites) ==
    SelectSeq(flatten_testcases(suites, 1),
              LAMBDA test : test.errors # << >> \/ test.failures # << >>)

\* .filter(|test| ...).collect()
failed_tests(suites) == SelectSeq(flatten_testcases(suites, 1), is_negative)

suites_to_md_mult(suites, verbose, checks) ==
    LET m1 == create_h1(<< >>, Lit("Aggregated test report"))
        r2 == add_totals_multiple(m1, suites, checks)
    IN  IF r2.panic
        THEN r2
        ELSE Rendered(add_testcases_fail_details(r2.md, failed_tests(suites), verbose))

(***************************************************************************)
(* Inputs: the test cases and suites the specifications draw from.         *)
(***************************************************************************)
ErrorResult == TestNegativeResult(Some(<< "E" >>), None, Some(<< "a", "t", "\n", "b" >>))
FailureResult == TestNegativeResult(None, Some(<< "b", "o", "o", "m" >>), None)
SkippedResult == TestNegativeResult(None, None, None)

PassA == TestCase(<< "A" >>, None, None, << >>, << >>)
PassC == TestCase(<< "p", ".", "C" >>, Some(<< "p", ".", "K" >>), None, << >>, << >>)
ErrorB == TestCase(<< "p", ".", "B" >>, Some(<< "p", ".", "K" >>), None, << ErrorResult >>, << >>)
FailureB == TestCase(<< "B" >>, None, None, << >>, << FailureResult >>)
SkippedS == TestCase(<< "q", ".", "S" >>, None, Some(SkippedResult), << >>, << >>)
\* every kind at once, two <error> elements
MixedM ==
    TestCase(<< "p", ".", "q", ".", "M" >>, None, Some(SkippedResult),
             << ErrorResult, ErrorResult >>, << FailureResult >>)

TestCasePool == { PassA, PassC, ErrorB, FailureB, SkippedS, MixedM }

SuiteName == << "p", "k", "g", ".", "F", "o", "o" >>

has_failure(test) == test.failures # << >>
has_error(test) == test.errors # << >>
has_skipped(test) == is_some(test.skipped)

\* a suite whose attributes count its own test cases
CaseSuite(tests) ==
    TestSuite(SuiteName, Len(tests),
              Some(Cardinality({ i \in 1..Len(tests) : has_failure(tests[i]) })),
              None,
              Some(Cardinality({ i \in 1..Len(tests) : has_skipped(tests[i]) })),
              Some(Cardinality({ i \in 1..Len(tests) : has_error(tests[i]) })),
              tests)

CaseSuites == { CaseSuite(tests) : tests \in SeqsUpTo(TestCasePool, MaxCases) }

OptCounts == { None } \cup { Some(n) : n \in 0..MaxCount }

\* a suite of attributes alone, every combination of them
CountSuites ==
    { TestSuite(SuiteName, t, f, d, k, e, << >>) :
        t \in 0..MaxTests, f \in OptCounts, d \in OptCounts, k \in OptCounts, e \in OptCounts }

SingleSuites == CaseSuites \cup CountSuites

(***************************************************************************)
(* SpecSingle: suite_to_md_single, one action per call it makes.           *)
(***************************************************************************)
InitSingle ==
    /\ pc = "create_h1"
    /\ suite \in { Some(s) : s \in SingleSuites }
    /\ md = << >>
    /\ IS_VERBOSE \in BOOLEAN
    /\ overflow_checks \in BOOLEAN
    /\ IdleMain /\ IdleName /\ IdleTable

SingleHeader ==
    /\ pc = "create_h1"
    /\ md' = create_h1(md, Chars(omit_java_package(unwrap(suite).name)))
    /\ pc' = "add_suite_properties"
    /\ UNCHANGED << suite, mainVars, buildVars, nameVars, tableVars >>

SingleProperties ==
    /\ pc = "add_suite_properties"
    /\ md' = add_suite_properties(md, unwrap(suite), IS_VERBOSE)
    /\ pc' = "add_totals_singular"
    /\ UNCHANGED << suite, mainVars, buildVars, nameVars, tableVars >>

SingleTotals ==
    /\ pc = "add_totals_singular"
    /\ LET r == add_totals_singular(md, unwrap(suite), overflow_checks)
       IN  /\ md' = r.md
           /\ pc' = IF r.panic THEN "panicked" ELSE "add_testcases_summary"
    /\ UNCHANGED << suite, mainVars, buildVars, nameVars, tableVars >>

SingleSummary ==
    /\ pc = "add_testcases_summary"
    /\ md' = add_testcases_summary(md, unwrap(suite))
    /\ pc' = "add_testcases_fail_details"
    /\ UNCHANGED << suite, mainVars, buildVars, nameVars, tableVars >>

SingleFailDetails ==
    /\ pc = "add_testcases_fail_details"
    /\ md' = add_testcases_fail_details(md, unwrap(suite).testcases, IS_VERBOSE)
    /\ pc' = "rendered"
    /\ UNCHANGED << suite, mainVars, buildVars, nameVars, tableVars >>

NextSingle ==
    SingleHeader \/ SingleProperties \/ SingleTotals \/ SingleSummary \/ SingleFailDetails
SpecSingle == InitSingle /\ [][NextSingle]_vars

(***************************************************************************)
(* SpecMult: suites_to_md_mult, one action per call it makes.  The suites  *)
(* are those main() collected in `testsuites`.                             *)
(***************************************************************************)
\* a success, a failure, a skip, and a test case with errors, a failure and a skip
MultCasePool == { PassA, FailureB, SkippedS, MixedM }

\* the suites that hold the test cases `flat`, suite s ending after test case ends[s]
suites_of(flat, ends) ==
    [ s \in 1..Len(ends) |->
        CaseSuite(SubSeq(flat, (IF s = 1 THEN 0 ELSE ends[s - 1]) + 1, ends[s])) ]

\* the ways to cut n test cases into k suites, one after the other (a suite may be empty)
SuiteEnds(k, n) ==
    { ends \in [ 1..k -> 0..n ] :
        /\ \A s \in 1..(k - 1) : ends[s] <= ends[s + 1]
        /\ IF k = 0 THEN n = 0 ELSE ends[k] = n }

\* every list of at most MaxSuites suites that hold at most MaxTotalCases test cases together
InitMult ==
    /\ pc = "mult_create_h1"
    /\ \E flat \in SeqsUpTo(MultCasePool, MaxTotalCases) :
       \E k \in 0..MaxSuites :
       \E ends \in SuiteEnds(k, Len(flat)) :
           testsuites = suites_of(flat, ends)
    /\ md = << >>
    /\ IS_VERBOSE \in BOOLEAN
    /\ overflow_checks \in BOOLEAN
    /\ junit_files = << >> /\ file_idx = 0 /\ mult = None /\ singular = None
    /\ parsed = << >> /\ stdout = << >> /\ stderr = << >>
    /\ suite = None
    /\ IdleName /\ IdleTable

multIdle == << testsuites, suite, junit_files, file_idx, mult, singular, parsed, stdout, stderr,
               buildVars, nameVars, tableVars >>

\* main.rs:97-99
MultHeader ==
    /\ pc = "mult_create_h1"
    /\ md' = create_h1(md, Lit("Aggregated test report"))
    /\ pc' = "add_totals_multiple"
    /\ UNCHANGED multIdle

\* main.rs:100
MultTotals ==
    /\ pc = "add_totals_multiple"
    /\ LET r == add_totals_multiple(md, testsuites, overflow_checks)
       IN  /\ md' = r.md
           /\ pc' = IF r.panic THEN "mult_panicked" ELSE "mult_fail_details"
    /\ UNCHANGED multIdle

\* main.rs:102-108 (`testsuites` keeps the suites the call consumed)
MultFailDetails ==
    /\ pc = "mult_fail_details"
    /\ md' = add_testcases_fail_details(md, failed_tests(testsuites), IS_VERBOSE)
    /\ pc' = "mult_rendered"
    /\ UNCHANGED multIdle

NextMult == MultHeader \/ MultTotals \/ MultFailDetails
SpecMult == InitMult /\ [][NextMult]_vars

(***************************************************************************)
(* Spec: main().  A file on the command line is readable or not; what      *)
(* serde_xml_rs makes of its content is an input of the parse step.        *)
(***************************************************************************)
Ok(v) == [ ok |-> v ]
Err(e) == [ err |-> e ]
is_ok(r) == "ok" \in DOMAIN r

XmlErrors == { "missing field name", "unexpected end of stream" }

JunitReport(suites) == [ duration |-> None, testsuites |-> suites ]

\* the suites a parsed document may hold
MainSuites ==
    { CaseSuite(<< >>),                                         \* tests="0"
      CaseSuite(<< PassA >>),
      CaseSuite(<< PassA, FailureB >>),
      TestSuite(SuiteName, 1, Some(2), None, None, None, << ErrorB >>) }  \* failures > tests

\* from_reader::<JunitReport>
MultResults ==
    { Err(e) : e \in XmlErrors }
        \cup { Ok(JunitReport(suites)) : suites \in SeqsUpTo(MainSuites, MaxSuites) }

\* from_reader::<TestSuite>
SingularResults == { Err(e) : e \in XmlErrors } \cup { Ok(s) : s \in MainSuites }

Init ==
    /\ pc = "main"
    /\ junit_files \in SeqsUpTo(BOOLEAN, MaxFiles) \ { << >> }   \* TRUE: the file can be read
    /\ IS_VERBOSE \in BOOLEAN
    /\ overflow_checks \in BOOLEAN
    /\ file_idx = 0 /\ mult = None /\ singular = None
    /\ testsuites = << >> /\ parsed = << >> /\ stdout = << >> /\ stderr = << >>
    /\ IdleSingle /\ IdleName /\ IdleTable

idleVars == << buildVars, singleVars, nameVars, tableVars >>

\* println!("{}", md) of a rendered report, or the panic that ended the rendering
PrintOrPanic(r) ==
    IF r.panic
    THEN /\ pc' = "panicked"
         /\ stderr' = Append(stderr, [ kind |-> "panic", message |-> r.message ])
         /\ UNCHANGED stdout
    ELSE /\ pc' = "returned"
         /\ stdout' = Append(stdout, r.md)
         /\ UNCHANGED stderr

\* main.rs:47-49: a single file is read
ReadSingleFile ==
    /\ pc = "main"
    /\ Len(junit_files) = 1
    /\ file_idx' = 1
    /\ IF junit_files[1]
       THEN pc' = "parse_aggregated" /\ UNCHANGED stderr
       ELSE /\ pc' = "panicked"
            /\ stderr' = Append(stderr, [ kind |-> "panic", message |-> "Can't read JUnit file" ])
    /\ UNCHANGED << junit_files, mult, singular, testsuites, parsed, stdout, idleVars >>

\* main.rs:50-58: the content is tried as an aggregated report
ParseAggregated ==
    /\ pc = "parse_aggregated"
    /\ \E r \in MultResults :
        /\ mult' = Some(r)
        /\ IF is_ok(r) /\ Len(r.ok.testsuites) # 0
           THEN PrintOrPanic(suites_to_md_mult(r.ok.testsuites, IS_VERBOSE, overflow_checks))
           ELSE pc' = "parse_singular" /\ UNCHANGED << stdout, stderr >>
    /\ UNCHANGED << junit_files, file_idx, singular, testsuites, parsed, idleVars >>

\* main.rs:60-70: the content is tried as a single suite
ParseSingular ==
    /\ pc = "parse_singular"
    /\ \E r \in SingularResults :
        /\ singular' = Some(r)
        /\ IF is_ok(r)
           THEN PrintOrPanic(suite_to_md_single(r.ok, IS_VERBOSE, overflow_checks))
           ELSE /\ pc' = "returned"
                /\ stderr' = Append(stderr,
                       [ kind |-> "diagnostic",
                         fmt |-> "Couldn't parse JUnit XML as singular: {}", error |-> r.err ])
                /\ UNCHANGED stdout
    /\ UNCHANGED << junit_files, file_idx, mult, testsuites, parsed, idleVars >>

\* main.rs:73-74: several files
StartAggregating ==
    /\ pc = "main"
    /\ Len(junit_files) # 1
    /\ testsuites' = << >>
    /\ pc' = "for_junit_file"
    /\ UNCHANGED << junit_files, file_idx, mult, singular, parsed, stdout, stderr, idleVars >>

\* main.rs:75-84: one turn of the loop over the files
ReadNextFile ==
    /\ pc = "for_junit_file"
    /\ file_idx < Len(junit_files)
    /\ file_idx' = file_idx + 1
    /\ IF ~junit_files[file_idx + 1]
       THEN /\ pc' = "panicked"
            /\ stderr' = Append(stderr, [ kind |-> "panic", message |-> "Can't read JUnit file {}",
                                          file |-> file_idx + 1 ])
            /\ UNCHANGED << singular, testsuites, parsed >>
       ELSE \E r \in SingularResults :
            /\ singular' = Some(r)
            /\ parsed' = Append(parsed, r)
            /\ pc' = "for_junit_file"
            /\ IF is_ok(r)
               THEN testsuites' = Append(testsuites, r.ok) /\ UNCHANGED stderr
               ELSE /\ stderr' = Append(stderr,
                           [ kind |-> "diagnostic",
                             fmt |-> "Couldn't parse JUnit XML {} as singular: {}",
                             file |-> file_idx + 1, error |-> r.err ])
                    /\ UNCHANGED testsuites
    /\ UNCHANGED << junit_files, mult, stdout, idleVars >>

\* main.rs:86-88: the aggregated report of the suites collected
PostAggregated ==
    /\ pc = "for_junit_file"
    /\ file_idx = Len(junit_files)
    /\ PrintOrPanic(suites_to_md_mult(testsuites, IS_VERBOSE, overflow_checks))
    /\ UNCHANGED << junit_files, file_idx, mult, singular, testsuites, parsed, idleVars >>

Next ==
    \/ ReadSingleFile
    \/ ParseAggregated
    \/ ParseSingular
    \/ StartAggregating
    \/ ReadNextFile
    \/ PostAggregated
Spec == Init /\ [][Next]_vars

(***************************************************************************)
(* md/mod.rs: the layout of a table, on the texts of its cells             *)
(* (cell.to_string()).  A line is a sequence of scalar values.             *)
(***************************************************************************)
Max(S) == CHOOSE x \in S : \A y \in S : y <= x

RECURSIVE repeat(_, _)
\* str::repeat
repeat(c, n) == IF n <= 0 THEN << >> ELSE << c >> \o repeat(c, n - 1)

\* md/mod.rs:56-69: the width of column index (from 1) of the table
column_width(table, index) ==
    Max({ 3 } \cup { str_len(table[r][index]) :
                       r \in { q \in 1..Len(table) : index <= Len(table[q]) } })

detect_column_widths(table) == [ index \in 1..Len(table[1]) |-> column_width(table, index) ]

\* md/mod.rs:116: does column_width - content.chars().count() leave the usize range
pad_underflows(content, width) == str_len(content) > 0 /\ width - chars_count(content) < 0

\* mutation: the padding is measured against the byte length of the text
pad_cell_text_by_bytes(content, width, align_center) ==
    IF str_len(content) > 0
    THEN LET len_diff == wrap(width - str_len(content))
         IN  IF len_diff > 0
             THEN IF ~align_center
                  THEN content \o repeat(" ", len_diff)
                  ELSE repeat(" ", len_diff \div 2) \o content
                           \o repeat(" ", len_diff - len_diff \div 2)
             ELSE content
    ELSE repeat(" ", width)

pad_cell_text(content, width, align_center) ==
    IF str_len(content) > 0
    THEN LET len_diff == wrap(width - chars_count(content))
         IN  IF len_diff > 0
             THEN IF ~align_center
                  THEN content \o repeat(" ", len_diff)
                  ELSE IF len_diff > 1
                       THEN LET pad_len == len_diff \div 2
                                remainder == len_diff % 2
                            IN  repeat(" ", pad_len) \o content \o repeat(" ", pad_len + remainder)
                       ELSE content \o << " " >>       \* just one space, add at the end
             ELSE content                               \* text fills whole cell
    ELSE repeat(" ", width)                             \* no text in this cell

RECURSIVE join_cells(_, _)
\* '|' then every cell followed by '|'
join_cells(cells, i) ==
    IF i > Len(cells) THEN << >> ELSE cells[i] \o << "|" >> \o join_cells(cells, i + 1)

table_line(cells) == << "|" >> \o join_cells(cells, 1)

\* md/mod.rs:72-79
headers_line(headers, widths) ==
    table_line([ index \in 1..Len(widths) |-> pad_cell_text(headers[index], widths[index], TRUE) ])

\* md/mod.rs:81-88
divider_line(widths) == table_line([ index \in 1..Len(widths) |-> repeat("-", widths[index]) ])

\* md/mod.rs:90-105
data_line(row, widths, align_left) ==
    table_line([ index \in 1..Len(widths) |->
                   IF align_left /\ index = 1
                   THEN pad_cell_text(row[index], widths[index], FALSE)
                   ELSE pad_cell_text(row[index], widths[index], TRUE) ])

row_underflows(row, widths) == \E index \in 1..Len(widths) : pad_underflows(row[index], widths[index])

(***************************************************************************)
(* SpecTable: create_md_table on every small table of equal column count.  *)
(***************************************************************************)
\* empty, ASCII shorter and longer than the least width, one and two three-byte glyphs
CellTexts ==
    { << >>, << "a", "b" >>, << "a", "b", "c", "d" >>, << "U+2713" >>, << "U+2713", "U+2717" >> }
ColumnCounts == { 1, 2 }
TableRows(columns) == { r \in SeqsUpTo(CellTexts, columns) : Len(r) = columns }
Tables ==
    UNION { SeqsUpTo(TableRows(columns), MaxRows) \ { << >> } : columns \in ColumnCounts }

InitTable ==
    /\ pc = "create_md_table"
    /\ rows \in Tables
    /\ align_left_first_column \in BOOLEAN
    /\ column_widths = << >>
    /\ table_md = << >>
    /\ IdleMain /\ IdleBuild /\ IdleSingle /\ IdleName

tableIdle == << mainVars, buildVars, singleVars, nameVars >>

\* md/mod.rs:51-54
TableTooShort ==
    /\ pc = "create_md_table"
    /\ Len(rows) < 2
    /\ pc' = "table_done"
    /\ UNCHANGED << tableVars, tableIdle >>

\* md/mod.rs:56-69
DetectWidths ==
    /\ pc = "create_md_table"
    /\ Len(rows) >= 2
    /\ column_widths' = detect_column_widths(rows)
    /\ pc' = "make_headers"
    /\ UNCHANGED << rows, align_left_first_column, table_md, tableIdle >>

\* md/mod.rs:72-79
MakeHeaders ==
    /\ pc = "make_headers"
    /\ IF row_underflows(rows[1], column_widths)
       THEN pc' = "panicked" /\ UNCHANGED table_md
       ELSE /\ table_md' = Append(table_md, headers_line(rows[1], column_widths))
            /\ pc' = "make_divider"
    /\ UNCHANGED << rows, align_left_first_column, column_widths, tableIdle >>

\* md/mod.rs:81-88
MakeDivider ==
    /\ pc = "make_divider"
    /\ table_md' = Append(table_md, divider_line(column_widths))
    /\ pc' = "make_rows"
    /\ UNCHANGED << rows, align_left_first_column, column_widths, tableIdle >>

\* md/mod.rs:90-105: the next row of data (table_md holds the header, the divider
\* and the rows made so far)
MakeRow ==
    /\ pc = "make_rows"
    /\ Len(table_md) < Len(rows) + 1
    /\ IF row_underflows(rows[Len(table_md)], column_widths)
       THEN pc' = "panicked" /\ UNCHANGED table_md
       ELSE /\ table_md' = Append(table_md,
                   data_line(rows[Len(table_md)], column_widths, align_left_first_column))
            /\ pc' = "make_rows"
    /\ UNCHANGED << rows, align_left_first_column, column_widths, tableIdle >>

\* md/mod.rs:106: the empty line after the table
EndTable ==
    /\ pc = "make_rows"
    /\ Len(table_md) = Len(rows) + 1
    /\ table_md' = Append(table_md, << >>)
    /\ pc' = "table_done"
    /\ UNCHANGED << rows, align_left_first_column, column_widths, tableIdle >>

NextTable ==
    TableTooShort \/ DetectWidths \/ MakeHeaders \/ MakeDivider \/ MakeRow \/ EndTable
SpecTable == InitTable /\ [][NextTable]_vars

(***************************************************************************)
(* SpecName: omit_java_package applied to every short name, then to its    *)
(* own result.                                                             *)
(***************************************************************************)
\* '.', space, tab, line feed, an ASCII letter, a two-byte letter
NameChars == { ".", " ", "\t", "\n", "a", "U+00E9" }
Names == SeqsUpTo(NameChars, MaxNameLen)

InitName ==
    /\ pc = "simplify"
    /\ name \in Names
    /\ simplified = None /\ twice = None
    /\ IdleMain /\ IdleBuild /\ IdleSingle /\ IdleTable

Simplify ==
    /\ pc = "simplify"
    /\ simplified' = Some(omit_java_package(name))
    /\ pc' = "simplify_again"
    /\ UNCHANGED << name, twice, mainVars, buildVars, singleVars, tableVars >>

SimplifyAgain ==
    /\ pc = "simplify_again"
    /\ twice' = Some(omit_java_package(unwrap(simplified)))
    /\ pc' = "simplified"
    /\ UNCHANGED << name, simplified, mainVars, buildVars, singleVars, tableVars >>

NextName == Simplify \/ SimplifyAgain
SpecName == InitName /\ [][NextName]_vars

(***************************************************************************)
(* Reading a rendered report                                               *)
(***************************************************************************)
\* the rows of the table that follows the level-2 header `title`: None if there is none
TableAfter(m, title) ==
    LET at == { i \in 1..(Len(m) - 1) :
                  /\ m[i].kind = "header"
                  /\ m[i].title = Lit(title)
                  /\ m[i + 1].kind = "table" }
    IN  IF at = { } THEN None ELSE Some(m[(CHOOSE i \in at : \A j \in at : i <= j) + 1].rows)

\* the rows of the first table of the report: None if there is none
FirstTable(m) ==
    LET at == { i \in 1..Len(m) : m[i].kind = "table" }
    IN  IF at = { } THEN None ELSE Some(m[CHOOSE i \in at : \A j \in at : i <= j].rows)

IsAnchor(piece) == piece.kind = "anchor"
IsH3(piece) == piece.kind = "h3"
Anchors(m) == SelectSeq(m, IsAnchor)
DetailTitles(m) == SelectSeq(m, IsH3)

NonSuccess(test) == test.errors # << >> \/ test.failures # << >> \/ test.skipped # None
NonSuccessBefore(tests, i) == Cardinality({ j \in 1..(i - 1) : NonSuccess(tests[j]) })

LinkTo(k) == Format("[[{0}]](#c-{0})", k)
AnchorOf(k) == Format("<a id=\"c-{}\"/>", k)

(***************************************************************************)
(* Claims about the single-suite report (SpecSingle)                       *)
(***************************************************************************)
\* C1: in a rendered single-suite report the k-th test case (from 0, in declaration
\* order) with an error, a failure or a skip has the link [[k]](#c-k) in its row of the
\* breakdown table, and the k-th anchor of the Failures section is <a id="c-k"/> and
\* heads the entry of that same test case; a successful test case has an empty Cause
\* cell and no anchor.
C1_LinksMatchAnchors ==
    pc = "rendered" =>
        LET tests == unwrap(suite).testcases
            table == TableAfter(md, "Breakdown by testcases")
            anchors == Anchors(md)
            titles == DetailTitles(md)
        IN  /\ Len(anchors) = NonSuccessBefore(tests, Len(tests) + 1)
            /\ Len(titles) = Len(anchors)
            /\ \A k \in 1..Len(anchors) : anchors[k].text = AnchorOf(k - 1)
            /\ tests # << >> =>
                /\ is_some(table)
                /\ Len(unwrap(table)) = Len(tests) + 1
                /\ \A i \in 1..Len(tests) :
                     LET row == unwrap(table)[i + 1]
                         k == NonSuccessBefore(tests, i)
                     IN  IF NonSuccess(tests[i])
                         THEN /\ row[4] = LinkTo(k)
                              /\ omit_java_package(titles[k + 1].title.chars) = row[1].chars
                              /\ row[1].chars = omit_java_package(tests[i].name)
                         ELSE row[4] = Lit("")

\* C1 witness: a report of [error, success, skip] is rendered, with the anchor c-1
C1_Witness ==
    /\ pc = "rendered"
    /\ unwrap(suite).testcases = << ErrorB, PassA, SkippedS >>
    /\ Len(Anchors(md)) = 2
    /\ Anchors(md)[2].text = AnchorOf(1)

\* C2: a suite with tests = 0 and no test case is rendered without a crash, and every
\* percentage of its "Overall status" table is 0.
C2_ZeroTestsRendersZeroPercent ==
    (unwrap(suite).tests = 0 /\ unwrap(suite).testcases = << >>) =>
        /\ pc # "panicked"
        /\ pc = "rendered" =>
             LET table == TableAfter(md, "Overall status")
             IN  /\ is_some(table)
                 /\ \A r \in 2..5 : unwrap(table)[r][3] = Num(0)

\* C3: for every suite add_totals_singular ends normally and the counts of its table
\* satisfy Skipped + Disabled + Failed + Successful = tests with Failed = failures + errors,
\* also when failures + errors + disabled + skipped > tests.  (Stated for tests >= 1:
\* the suite with tests = 0 is C2's.)
C3_CountsSumToTests ==
    unwrap(suite).tests >= 1 =>
    /\ pc # "panicked"
    /\ pc \in { "add_testcases_summary", "add_testcases_fail_details", "rendered" } =>
         LET table == TableAfter(md, "Overall status")
             s == unwrap(suite)
         IN  /\ is_some(table)
             /\ unwrap(table)[4][2].num = unwrap_or(s.failures, 0) + unwrap_or(s.errors, 0)
             /\ unwrap(table)[2][2].num + unwrap(table)[3][2].num
                  + unwrap(table)[4][2].num + unwrap(table)[5][2].num = s.tests

\* C10: the level-3 header of every entry of the Failures section shows the simplified
\* test name, the one the test case's row of the breakdown table shows.
C10_DetailTitleIsSimplified ==
    pc = "rendered" =>
        LET tests == unwrap(suite).testcases
            table == TableAfter(md, "Breakdown by testcases")
            titles == DetailTitles(md)
        IN  \A i \in 1..Len(tests) :
                NonSuccess(tests[i]) =>
                    /\ titles[NonSuccessBefore(tests, i) + 1].title
                         = Chars(omit_java_package(tests[i].name))
                    /\ titles[NonSuccessBefore(tests, i) + 1].title = unwrap(table)[i + 1][1]

(***************************************************************************)
(* Claims about main() (Spec)                                              *)
(***************************************************************************)
Ended == pc \in { "returned", "panicked" }

\* stdout holds a report whose first header is the aggregated one
AggregatedPrinted(out) ==
    out # << >> /\ out[1] # << >> /\ out[1][1].kind = "header"
        /\ out[1][1].title = Lit("Aggregated test report")

\* stdout holds a report whose first header is a suite name
SinglePrinted(out) ==
    out # << >> /\ out[1] # << >> /\ out[1][1].kind = "header"
        /\ "chars" \in DOMAIN out[1][1].title

AggregatedParsed == is_some(mult) /\ is_ok(unwrap(mult)) /\ Len(unwrap(mult).ok.testsuites) >= 1
SingularParsed == is_some(singular) /\ is_ok(unwrap(singular))

\* stderr holds exactly the parse-failure diagnostic quoting the error of the singular parse
ParseFailureReported ==
    /\ Len(stderr) = 1
    /\ stderr[1].kind = "diagnostic"
    /\ is_some(singular) /\ ~is_ok(unwrap(singular))
    /\ stderr[1].error = unwrap(singular).err

\* C4: with one readable input file, the run ends with an aggregated report iff the
\* aggregated parse succeeded with at least one suite; otherwise with a single-suite
\* report iff the singular parse succeeded; otherwise with the parse-failure diagnostic
\* and nothing on stdout.  Exactly one of the three happens; at most one report is printed.
\* (Stated for a build without overflow checks, where no report is lost to an overflow.)
C4_OneOutcomeOfTheChain ==
    (Ended /\ Len(junit_files) = 1 /\ junit_files[1] /\ ~overflow_checks) =>
        /\ Len(stdout) <= 1
        /\ AggregatedPrinted(stdout) <=> AggregatedParsed
        /\ SinglePrinted(stdout) <=> (~AggregatedParsed /\ SingularParsed)
        /\ (~AggregatedParsed /\ ~SingularParsed) => (ParseFailureReported /\ stdout = << >>)
        /\ \/ AggregatedPrinted(stdout) /\ stderr = << >>
           \/ SinglePrinted(stdout) /\ stderr = << >>
           \/ ParseFailureReported /\ stdout = << >>

\* C5: with several input files, whatever file fails (unreadable or not a single suite),
\* every file after it is still read and parsed and the run ends by printing the
\* aggregated report.
C5_FailedFileDoesNotBlock ==
    (Ended /\ Len(junit_files) > 1) =>
        /\ file_idx = Len(junit_files)
        /\ Len(parsed) = Len(junit_files)
        /\ Len(stdout) = 1 /\ AggregatedPrinted(stdout)

IsErr(r) == ~is_ok(r)
RECURSIVE OkValues(_)
OkValues(results) ==
    IF results = << >> THEN << >>
    ELSE (IF is_ok(Head(results)) THEN << Head(results).ok >> ELSE << >>)
         \o OkValues(Tail(results))

\* C6: with several input files, all readable, the suites rendered are the files that
\* parsed, in input order, each once; a file that did not parse gives one diagnostic;
\* the aggregated report is printed whatever the number of suites, and for none it is
\* the header and a table of the header row and a Total row of zeros.
C6_ParsedSuitesAreRendered ==
    (Ended /\ Len(junit_files) > 1 /\ \A i \in 1..Len(junit_files) : junit_files[i]) =>
        /\ Len(parsed) = Len(junit_files)
        /\ testsuites = OkValues(parsed)
        /\ Len(stderr) = Len(SelectSeq(parsed, IsErr))
        /\ \A i \in 1..Len(stderr) : stderr[i].kind = "diagnostic"
        /\ Len(stdout) = 1 /\ AggregatedPrinted(stdout)
        /\ LET table == FirstTable(stdout[1])
           IN  /\ is_some(table)
               /\ Len(unwrap(table)) = Len(testsuites) + 2
               /\ testsuites = << >> =>
                    unwrap(table)[2] = << Lit("**Total**"), Lit("N/A"), Num(0), Num(0),
                                          Num(0), Num(0), Num(0) >>

(***************************************************************************)
(* Claims about omit_java_package (SpecName)                               *)
(***************************************************************************)
Whitespace == { " ", "\t", "\n" }
HasWhitespace(n) == \E i \in 1..Len(n) : n[i] \in Whitespace
HasSpace(n) == \E i \in 1..Len(n) : n[i] = " "
HasDot(n) == \E i \in 1..Len(n) : n[i] = "."
Dots(n) == Cardinality({ i \in 1..Len(n) : n[i] = "." })

\* C7 as stated: a name with any whitespace character (space, tab, line feed), or with
\* no '.', is returned unchanged.
C7_AnyWhitespaceUnchanged ==
    is_some(simplified) =>
        ((HasWhitespace(name) \/ ~HasDot(name)) => unwrap(simplified) = name)

\* C7 as amended: a name with a space character (U+0020), wherever its '.' are, or with
\* no '.', is returned unchanged.
C7_SpaceOrNoDotUnchanged ==
    is_some(simplified) =>
        ((HasSpace(name) \/ ~HasDot(name)) => unwrap(simplified) = name)

\* C7 witness: a name with a space and a '.' on each side of it was simplified
C7_Witness ==
    /\ is_some(simplified)
    /\ name = << ".", " ", ".", "a" >>
    /\ unwrap(simplified) = name

\* C8: omit_java_package never fails (the unwrap of rfind meets Some), never returns the
\* empty string for a non-empty name, and applying it twice gives what applying it once
\* gives.
C8_IdempotentAndTotal ==
    /\ (HasDot(name) /\ ~HasSpace(name)) => is_some(rfind(name, "."))
    /\ is_some(simplified) => (name # << >> => unwrap(simplified) # << >>)
    /\ is_some(twice) => twice = simplified

\* C8 witness: a name with two '.' lost its package, and the second application is done
C8_Witness ==
    /\ is_some(twice)
    /\ Dots(name) >= 2
    /\ unwrap(simplified) # name
    /\ unwrap(simplified) # << >>

(***************************************************************************)
(* Claims about create_md_table (SpecTable)                                *)
(***************************************************************************)
\* the number of '-' the divider line has for column j
DividerDashes(j) ==
    LET cut == { i \in 1..Len(table_md[2]) : table_md[2][i] = "|" }
        bars == [ k \in 1..Cardinality(cut) |->
                    CHOOSE i \in cut : Cardinality({ h \in cut : h < i }) = k - 1 ]
    IN  bars[j + 1] - bars[j] - 1

\* C9: for a table of at least 2 rows the width of column j, the number of '-' of its
\* divider, is max(3, the largest number of scalar values of a cell text of column j).
C9_WidthIsMaxCharCount ==
    (Len(rows) >= 2 /\ column_widths # << >>) =>
        \A j \in 1..Len(rows[1]) :
            /\ column_widths[j]
                 = Max({ 3 } \cup { chars_count(rows[r][j]) : r \in 1..Len(rows) })
            /\ Len(table_md) >= 2 =>
                 DividerDashes(j)
                   = Max({ 3 } \cup { chars_count(rows[r][j]) : r \in 1..Len(rows) })

\* the positions of the '|' of a line, left to right
LineBars(line) ==
    LET cut == { i \in 1..Len(line) : line[i] = "|" }
    IN  [ k \in 1..Cardinality(cut) |->
            CHOOSE i \in cut : Cardinality({ h \in cut : h < i }) = k - 1 ]

\* what a line has between its j-th and its (j+1)-th '|'
LineCell(line, j) == SubSeq(line, LineBars(line)[j] + 1, LineBars(line)[j + 1] - 1)

\* the cell the claim describes for `text` in a column whose divider has `dashes` '-'
CenteredCell(text, dashes) ==
    LET d == dashes - chars_count(text)
    IN  repeat(" ", d \div 2) \o text \o repeat(" ", d - d \div 2)
LeftAlignedCell(text, dashes) == text \o repeat(" ", dashes - chars_count(text))

\* the lines emitted so far: the header, the divider, the data rows (not the closing
\* empty line)
EmittedLines == 1..(IF Len(table_md) > Len(rows) + 1 THEN Len(rows) + 1 ELSE Len(table_md))

\* the row of the table a line other than the divider was made from
RowOfLine(k) == IF k = 1 THEN rows[1] ELSE rows[k - 1]

\* C12: for a table of at least 2 rows of equal column count create_md_table never
\* stops on the subtraction column_width - chars().count(); once the divider is
\* emitted, every emitted line has as many characters as the divider, and the cell of
\* column j of every header or data line has as many characters as the divider has '-'
\* for column j: the text with floor(d/2) spaces before it and d - floor(d/2) after it
\* (d = dashes - characters of the text), or, for a first-column body cell under the
\* left-align option, the text followed by d spaces.
C12_CellsFillTheirColumn ==
    /\ pc # "panicked"
    /\ \A r \in 1..Len(rows), j \in 1..Len(column_widths) :
         ~pad_underflows(rows[r][j], column_widths[j])
    /\ Len(table_md) >= 2 =>
         \A k \in EmittedLines :
             /\ Len(table_md[k]) = Len(table_md[2])
             /\ Len(LineBars(table_md[k])) = Len(rows[1]) + 1
             /\ k # 2 =>
                  \A j \in 1..Len(rows[1]) :
                      LET text == RowOfLine(k)[j]
                          cell == LineCell(table_md[k], j)
                      IN  /\ Len(cell) = DividerDashes(j)
                          /\ DividerDashes(j) - chars_count(text) >= 0
                          /\ cell = IF k > 2 /\ align_left_first_column /\ j = 1
                                    THEN LeftAlignedCell(text, DividerDashes(j))
                                    ELSE CenteredCell(text, DividerDashes(j))

\* C12 witness: a finished two-column table under the left-align option with an empty
\* header cell, a three-byte glyph in the first body cell (padded on the right only)
\* and a header padded by one space
C12_Witness ==
    /\ pc = "table_done"
    /\ align_left_first_column
    /\ rows = << << << "a", "b" >>, << >> >>,
                 << << "U+2713" >>, << "a", "b", "c", "d" >> >> >>
    /\ table_md[1] = << "|", "a", "b", " ", "|", " ", " ", " ", " ", "|" >>
    /\ table_md[2] = << "|", "-", "-", "-", "|", "-", "-", "-", "-", "|" >>
    /\ table_md[3] = << "|", "U+2713", " ", " ", "|", "a", "b", "c", "d", "|" >>

(***************************************************************************)
(* Claims about the aggregated report (SpecMult)                           *)
(***************************************************************************)
\* the test cases with an error, a failure or a skip, as << suite, test case >> positions
MultEntries(suites) ==
    { p \in UNION { { << s, i >> : i \in 1..Len(suites[s].testcases) } : s \in 1..Len(suites) } :
        NonSuccess(suites[p[1]].testcases[p[2]]) }

\* how many of them come before position p: suite order, then declaration order
EntriesBefore(suites, p) ==
    Cardinality({ q \in MultEntries(suites) : q[1] < p[1] \/ (q[1] = p[1] /\ q[2] < p[2]) })

\* where the report has the level-2 header "Failures"
FailuresHeaders(m) ==
    { i \in 1..Len(m) : m[i].kind = "header" /\ m[i].underline = "-" /\ m[i].title = Lit("Failures") }

AnchorPositions(m) == { i \in 1..Len(m) : IsAnchor(m[i]) }

\* C11: in a rendered aggregated report the Failures section has one entry (an anchor
\* followed by the header of the test case) for every test case of every suite with an
\* error, a failure or a skip and none for a successful one; the entries are in suite
\* order and, within a suite, in declaration order; the k-th anchor (from 0) is
\* <a id="c-k"/>, without a gap or a restart at a suite boundary; and there is no
\* Failures header and no entry when no suite has such a test case.
C11_FailuresSectionOverAllSuites ==
    pc = "mult_rendered" =>
        LET entries == MultEntries(testsuites)
            anchors == Anchors(md)
            titles == DetailTitles(md)
            headers == FailuresHeaders(md)
        IN  /\ Len(anchors) = Cardinality(entries)
            /\ Len(titles) = Len(anchors)
            /\ \A k \in 1..Len(anchors) : anchors[k].text = AnchorOf(k - 1)
            /\ \A i \in AnchorPositions(md) : i < Len(md) /\ IsH3(md[i + 1])
            /\ \A p \in entries :
                 titles[EntriesBefore(testsuites, p) + 1].title
                     = Chars(testsuites[p[1]].testcases[p[2]].name)
            /\ IF entries = { }
               THEN headers = { }
               ELSE /\ Cardinality(headers) = 1
                    /\ \A h \in headers : \A i \in AnchorPositions(md) : h < i

\* C11 witness: the report of [[failure, success], [skip]] is rendered; the skipped test
\* case of the second suite has the anchor c-1
C11_Witness ==
    /\ pc = "mult_rendered"
    /\ testsuites = << CaseSuite(<< FailureB, PassA >>), CaseSuite(<< SkippedS >>) >>
    /\ Len(Anchors(md)) = 2
    /\ Anchors(md)[2].text = AnchorOf(1)
    /\ DetailTitles(md)[2].title = Chars(SkippedS.name)

====
